---- MODULE Spec2Model ----
(***************************************************************************)
(* Model of the speaker/listener training loops of the repository:         *)
(*   src/networks.py   IndependentFullyConnectedAgents  (variant "IFC")    *)
(*   src/rl/agents.py  BaseAgents                       (variant "Base")   *)
(*   src/rl/agents.py  VisaAgents                       (variant "Visa")   *)
(*                                                                         *)
(* Two specifications are defined over the same variables:                 *)
(*   SpecFn  applies the pure functions (the speaker's sample and infer    *)
(*           paths and both calculate_reward encodings) to inputs drawn    *)
(*           from bounded sets;                                            *)
(*   Spec    is the orchestrator: fit and predict as loops over lazily     *)
(*           drawn examples, with the training step and the points where   *)
(*           the code can raise as separate steps.                         *)
(* Python indices are 0-based and kept so; TLA+ sequences are 1-based, so  *)
(* a Python list xs is the sequence with xs[i] at position i+1.            *)
(***************************************************************************)
EXTENDS Integers, Sequences, FiniteSets, TLC

\* ----------------------------------------------------------------- bounds
MaxAlphabet == 3
MaxLen == 3
MaxWeight == 2
MaxCand == 2
MaxBatch == 2
MaxNBatches == 2
MaxExamples == 3
MaxTruthLen == 3

VARIABLES
  \* configuration, fixed at construction
  variant,                \* "IFC" | "Base" | "Visa"
  batch_size,             \* config_dict['batch_size']
  n_batches,              \* config_dict['n_batches'] (read by VisaAgents.fit)
  save_training_stats,
  save_testing_stats,
  alphabet_size,          \* config_dict['alphabet_size']
  max_message_length,     \* config_dict['max_message_length']
  \* orchestrator state
  training_stats,         \* self.training_stats (None before the first fit of IFC)
  testing_stats,          \* self.testing_stats
  total_training_reward,  \* fit's running reward (local in IFC, attribute in Base)
  total_reward,           \* the local total_reward of predict
  batch_counter,          \* fit's batch counter (local in IFC, attribute in Base)
  batch_training_inputs,  \* IFC.fit local
  message_probs_storage,  \* IFC.fit local
  rewards_storage,        \* IFC.fit local
  train_args,             \* self.X / self.m_probs / self.r of IFC
  speaker_updates,        \* train_on_batch calls the speaker model completed
  listener_updates,       \* train_on_batch calls the listener model completed
  n,                      \* generator calls made by VisaAgents.fit
  \* position of the running call
  pc,
  active,                 \* the call that is running, or ran last
  \* history of the running call
  processed,              \* examples the call has drawn from its iterator
  examples_used,          \* examples drawn over the object's life (bounded)
  train_steps,            \* training steps completed in the call
  trained,                \* inputs handed to a training step in the call
  ops,                    \* policy operations invoked in the call
  just_trained,           \* the last step was a completed training step
  example,                \* the example the last iteration drew
  in_batch,               \* examples drawn from the iterator now being read
  \* pure-function calls (SpecFn)
  call,                   \* the last pure-function call and its result
  prev                    \* the infer call before it

cfgvars == <<variant, batch_size, n_batches, save_training_stats,
             save_testing_stats, alphabet_size, max_message_length>>
statsvars == <<training_stats, testing_stats>>
accvars == <<batch_counter, batch_training_inputs, message_probs_storage,
             rewards_storage>>
paramvars == <<speaker_updates, listener_updates, train_args>>
histvars == <<processed, examples_used, train_steps, trained, ops, just_trained,
              example, in_batch>>
fnvars == <<call, prev>>
vars == <<cfgvars, statsvars, accvars, paramvars, histvars, fnvars,
          total_training_reward, total_reward, n, pc, active>>

None == "None"

\* ------------------------------------------------------- speaker policy
\* str(symbol) for the symbols the bounds reach
DigitStr == <<"0", "1", "2", "3", "4", "5", "6", "7", "8", "9">>

Str(s) == DigitStr[s + 1]

\* the model's output for one input: a weight per symbol, not all zero
ProbVectors(A) ==
  {p \in [0 .. A - 1 -> 0 .. MaxWeight] : \E s \in 0 .. A - 1 : p[s] > 0}

RECURSIVE SumUpTo(_, _)
SumUpTo(p, k) == IF k < 0 THEN 0 ELSE p[k] + SumUpTo(p, k - 1)

\* np.sum(probs)
Total(p) == SumUpTo(p, Cardinality(DOMAIN p) - 1)

\* probs / np.sum(probs): each entry the fraction <<numerator, denominator>>
Normalized(p) == [s \in DOMAIN p |-> <<p[s], Total(p)>>]

\* the symbols np.random.choice(alphabet_size, 1, p=...) can return
Support(p) == {s \in DOMAIN p : p[s] > 0}

\* message = ""; message += str(symbol) + "#", once per symbol
SampledMessage(q) ==
  [i \in 1 .. 2 * Len(q) |-> IF i % 2 = 1 THEN Str(q[(i + 1) \div 2]) ELSE "#"]

\* every (message, message_probs) sample_speaker_policy_for_message can return
sample_speaker_policy_for_message(p, L) ==
  {[message |-> SampledMessage(q),
    message_probs |-> [i \in 1 .. L |-> Normalized(p)[q[i]]]] :
      q \in [1 .. L -> Support(p)]}

\* normalized_probs[0].argsort(): ascending, equal entries in index order
\* (numpy sorts arrays this short by insertion)
argsort(p) ==
  [k \in 1 .. Cardinality(DOMAIN p) |->
     CHOOSE s \in DOMAIN p :
       Cardinality({t \in DOMAIN p :
                      p[t] < p[s] \/ (p[t] = p[s] /\ t < s)}) = k - 1]

\* xs[-L:] for L >= 1
LastL(xs, L) == IF L >= Len(xs) THEN xs ELSE SubSeq(xs, Len(xs) - L + 1, Len(xs))

\* xs[::-1]
Reversed(xs) == [i \in 1 .. Len(xs) |-> xs[Len(xs) + 1 - i]]

\* "#".join(str(e) for e in indices)
JoinedMessage(q) ==
  [i \in 1 .. 2 * Len(q) - 1 |-> IF i % 2 = 1 THEN Str(q[(i + 1) \div 2]) ELSE "#"]

\* the (message, message_probs) of the sample path used as the infer path
InferBySampling(p, L) == sample_speaker_policy_for_message(p, L)

\* every (message, message_probs) infer_from_speaker_policy can return
infer_from_speaker_policy(p, L) ==
  LET argmax_indices == Reversed(LastL(argsort(p), L))
  IN  {[message |-> JoinedMessage(argmax_indices),
        message_probs |-> [i \in 1 .. Len(argmax_indices) |->
                             Normalized(p)[argmax_indices[i]]]]}

\* the symbols a message string holds, as integers
SymbolOf(t) == CHOOSE s \in 0 .. 9 : Str(s) = t

MessageSymbols(m) ==
  LET toks == SelectSeq(m, LAMBDA t : t # "#")
  IN  [i \in 1 .. Len(toks) |-> SymbolOf(toks[i])]

\* ------------------------------------------------------------- rewards
\* the index test inverted: rewards every wrong choice
RewardIndexInverted(chosen_target_idx, target_candidate_idx) ==
  IF chosen_target_idx # target_candidate_idx THEN 1 ELSE 0

\* IndependentFullyConnectedAgents.calculate_reward
calculate_reward_index(chosen_target_idx, target_candidate_idx) ==
  IF chosen_target_idx = target_candidate_idx THEN 1 ELSE 0

\* BaseAgents.calculate_reward
calculate_reward_onehot(chosen_target_idx, target_candidate_idx) ==
  IF target_candidate_idx[chosen_target_idx + 1] = 1 THEN 1 ELSE 0

\* the one-hot ground truth of n candidates with the 1 at index t
OneHot(t, cands) == [i \in 1 .. cands |-> IF i = t + 1 THEN 1 ELSE 0]

\* ------------------------------------------------- pure-function calls
NoCall == [op |-> "none", probs |-> <<>>, message |-> <<>>, message_probs |-> <<>>,
           chosen |-> 0, target |-> 0, truth |-> <<>>, reward |-> 0]

\* the state __init__ leaves: lines 110-117 (IFC) and 21-29 (Base, Visa)
InitObject(v, b, nb, strain, stest, A, L) ==
  /\ variant = v
  /\ batch_size = b
  /\ n_batches = nb
  /\ save_training_stats = strain
  /\ save_testing_stats = stest
  /\ alphabet_size = A
  /\ max_message_length = L
  /\ training_stats = IF v = "IFC" THEN None ELSE <<>>
  /\ testing_stats = IF v = "IFC" THEN None ELSE <<>>
  /\ total_training_reward = 0
  /\ total_reward = 0
  /\ batch_counter = 0
  /\ batch_training_inputs = <<>>
  /\ message_probs_storage = <<>>
  /\ rewards_storage = <<>>
  /\ train_args = None
  /\ speaker_updates = 0
  /\ listener_updates = 0
  /\ n = 0
  /\ pc = "idle"
  /\ active = "none"
  /\ processed = 0
  /\ examples_used = 0
  /\ train_steps = 0
  /\ trained = {}
  /\ ops = {}
  /\ just_trained = FALSE
  /\ example = None
  /\ in_batch = 0
  /\ call = NoCall
  /\ prev = NoCall

loopvars == <<cfgvars, statsvars, accvars, paramvars, histvars,
              total_training_reward, total_reward, n, pc, active>>

InitFn ==
  \E A \in 1 .. MaxAlphabet, L \in 1 .. MaxLen :
    InitObject("IFC", 1, 1, TRUE, TRUE, A, L)

\* the model's forward pass returns some probability vector for the input
DrawProbs ==
  /\ call.op \in {"none", "infer"}
  /\ prev.op = "none"
  /\ \E p \in ProbVectors(alphabet_size) :
       call' = [NoCall EXCEPT !.op = "input", !.probs = p]
  /\ prev' = IF call.op = "infer" THEN call ELSE prev
  /\ UNCHANGED loopvars

SampleCall ==
  /\ call.op = "input"
  /\ prev.op = "none"
  /\ \E r \in sample_speaker_policy_for_message(call.probs, max_message_length) :
       call' = [call EXCEPT !.op = "sample", !.message = r.message,
                            !.message_probs = r.message_probs]
  /\ UNCHANGED <<prev, loopvars>>

InferCall ==
  /\ call.op = "input"
  /\ \E r \in infer_from_speaker_policy(call.probs, max_message_length) :
       call' = [call EXCEPT !.op = "infer", !.message = r.message,
                            !.message_probs = r.message_probs]
  /\ UNCHANGED <<prev, loopvars>>

\* a second infer on the same input, the model untouched in between
InferAgain ==
  /\ call.op = "infer"
  /\ prev.op = "none"
  /\ \E r \in infer_from_speaker_policy(call.probs, max_message_length) :
       call' = [call EXCEPT !.message = r.message,
                            !.message_probs = r.message_probs]
  /\ prev' = call
  /\ UNCHANGED loopvars

RewardIndexCall ==
  /\ call.op = "none"
  /\ \E cands \in 1 .. MaxTruthLen :
       \E t \in 0 .. cands - 1, c \in 0 .. cands - 1 :
         call' = [NoCall EXCEPT !.op = "reward_index", !.chosen = c, !.target = t,
                                !.truth = t,
                                !.reward = calculate_reward_index(c, t)]
  /\ UNCHANGED <<prev, loopvars>>

RewardOneHotCall ==
  /\ call.op = "none"
  /\ \E cands \in 1 .. MaxTruthLen :
       \E t \in 0 .. cands - 1, c \in 0 .. cands - 1 :
         call' = [NoCall EXCEPT !.op = "reward_onehot", !.chosen = c, !.target = t,
                                !.truth = OneHot(t, cands),
                                !.reward = calculate_reward_onehot(c, OneHot(t, cands))]
  /\ UNCHANGED <<prev, loopvars>>

NextFn ==
  \/ DrawProbs
  \/ SampleCall
  \/ InferCall
  \/ InferAgain
  \/ RewardIndexCall
  \/ RewardOneHotCall

SpecFn == InitFn /\ [][NextFn]_vars

\* ---------------------------------------------------------- orchestrator
Init ==
  \E v \in {"IFC", "Base", "Visa"}, b \in 1 .. MaxBatch,
     strain \in BOOLEAN, stest \in BOOLEAN :
    \E nb \in IF v = "Visa" THEN 1 .. MaxNBatches ELSE {1} :
      InitObject(v, b, nb, strain, stest, MaxAlphabet, MaxLen)

Raised == {"raised_listener_policy", "raised_calculate_reward",
           "raised_train_speaker", "raised_train_listener"}

\* the speaker's (message, message_probs) as the loops see it: the path that
\* produced it and the input it is for (its symbols are SpecFn's subject)
SpeakerOutput(path, x) == [via |-> path, input |-> x]

\* candidate j of the example with input x
Candidate(x, j) == <<x, j>>

\* a loop draws the next example of its iterator; the data set numbers its
\* target inputs and puts the correct candidate of input x at index x mod c
NextInput == examples_used + 1

GroundTruth(x, cands) == IF cands = 0 THEN 0 ELSE x % cands

Drawn(cands) == [input |-> NextInput, cands |-> cands]

\* the test of lines 237 (IFC) and 90, 178 (Base, Visa) taken on every example
BatchFullOnAny(counter, size) == counter >= 1

\* batch_counter == self.batch_size
BatchFull(counter, size) == counter = size

StartCall(kind) ==
  /\ pc = "idle"
  /\ active' = kind
  /\ processed' = 0
  /\ train_steps' = 0
  /\ trained' = {}
  /\ ops' = {}
  /\ just_trained' = FALSE
  /\ example' = None
  /\ in_batch' = 0
  /\ UNCHANGED <<examples_used, cfgvars, fnvars>>

\* what every iteration of a loop does to the history
DrawExample(cands, invoked) ==
  /\ examples_used < MaxExamples
  /\ examples_used' = examples_used + 1
  /\ processed' = processed + 1
  /\ example' = Drawn(cands)
  /\ in_batch' = in_batch + 1
  /\ ops' = ops \cup invoked
  /\ just_trained' = FALSE
  /\ UNCHANGED <<cfgvars, fnvars>>

\* ---- IndependentFullyConnectedAgents.fit
IFC_fit_start ==
  /\ variant = "IFC"
  /\ StartCall("fit")
  /\ training_stats' = <<>>
  /\ message_probs_storage' = <<>>
  /\ rewards_storage' = <<>>
  /\ total_training_reward' = 0
  /\ batch_counter' = 0
  /\ batch_training_inputs' = <<>>
  /\ pc' = "fit"
  /\ UNCHANGED <<testing_stats, total_reward, paramvars, n>>

\* lines 216-237 for an example whose candidates[chosen] is read only after the
\* counters and the accumulator were written
IFC_fit_step_late_raise ==
  /\ variant = "IFC"
  /\ pc = "fit"
  /\ \E cands \in 0 .. MaxCand :
       LET t == GroundTruth(NextInput, cands) IN
         \E chosen_target_idx \in 0 .. (IF cands = 0 THEN 0 ELSE cands - 1) :
           LET message == SpeakerOutput("sample", NextInput)
               reward == calculate_reward_index(chosen_target_idx, t)
           IN  /\ DrawExample(cands, {"speaker.sample", "listener_policy"})
               /\ total_training_reward' = total_training_reward + reward
               /\ batch_counter' = batch_counter + 1
               /\ batch_training_inputs' = Append(batch_training_inputs, NextInput)
               /\ rewards_storage' = Append(rewards_storage, reward)
               /\ message_probs_storage' = Append(message_probs_storage, message)
               /\ training_stats' =
                    IF save_training_stats /\ cands > 0
                    THEN Append(training_stats,
                                [reward |-> reward, input |-> NextInput,
                                 message |-> message,
                                 chosen_target |-> Candidate(NextInput, chosen_target_idx)])
                    ELSE training_stats
               /\ pc' = IF cands = 0 /\ save_training_stats
                        THEN "raised_listener_policy"
                        ELSE IF BatchFull(batch_counter', batch_size)
                             THEN "fit_train" ELSE "fit"
  /\ UNCHANGED <<testing_stats, total_reward, paramvars, n,
                 train_steps, trained, active>>

\* one iteration of the loop, lines 215-237: the train call is the next step
IFC_fit_step ==
  /\ variant = "IFC"
  /\ pc = "fit"
  /\ \E cands \in 0 .. MaxCand :
       LET t == GroundTruth(NextInput, cands) IN
         IF cands = 0
         THEN \* np.random.randint(0) raises in listener_policy, line 191
              /\ DrawExample(cands, {"speaker.sample", "listener_policy"})
              /\ pc' = "raised_listener_policy"
              /\ UNCHANGED <<statsvars, accvars, total_training_reward>>
         ELSE \E chosen_target_idx \in 0 .. cands - 1 :
                LET message == SpeakerOutput("sample", NextInput)
                    reward == calculate_reward_index(chosen_target_idx, t)
                IN  /\ DrawExample(cands, {"speaker.sample", "listener_policy"})
                    /\ total_training_reward' = total_training_reward + reward
                    /\ batch_counter' = batch_counter + 1
                    /\ batch_training_inputs' = Append(batch_training_inputs, NextInput)
                    /\ rewards_storage' = Append(rewards_storage, reward)
                    /\ message_probs_storage' = Append(message_probs_storage, message)
                    /\ training_stats' =
                         IF save_training_stats
                         THEN Append(training_stats,
                                     [reward |-> reward, input |-> NextInput,
                                      message |-> message,
                                      chosen_target |->
                                        Candidate(NextInput, chosen_target_idx)])
                         ELSE training_stats
                    /\ pc' = IF BatchFull(batch_counter', batch_size)
                             THEN "fit_train" ELSE "fit"
                    /\ UNCHANGED testing_stats
  /\ UNCHANGED <<total_reward, paramvars, n, train_steps, trained, active>>

\* the arguments train_speaker_policy_on_batch stacks, lines 163-165
Stacked == [X |-> batch_training_inputs, m_probs |-> message_probs_storage,
            r |-> rewards_storage]

RangeOf(xs) == {xs[i] : i \in 1 .. Len(xs)}

\* a training step that leaves the accumulated lists as they are
IFC_train_keeps_lists ==
  /\ variant = "IFC"
  /\ pc = "fit_train"
  /\ train_args' = Stacked
  /\ speaker_updates' = speaker_updates + 1
  /\ trained' = trained \cup RangeOf(batch_training_inputs)
  /\ train_steps' = train_steps + 1
  /\ ops' = ops \cup {"speaker.train_on_batch"}
  /\ batch_counter' = 0
  /\ just_trained' = TRUE
  /\ pc' = "fit"
  /\ UNCHANGED <<batch_training_inputs, message_probs_storage, rewards_storage,
                 statsvars, total_training_reward, total_reward, listener_updates,
                 n, active, processed, examples_used, example, in_batch, cfgvars, fnvars>>

\* lines 238-240: train_speaker_policy_on_batch returns, the accumulator is reset
IFC_train ==
  /\ variant = "IFC"
  /\ pc = "fit_train"
  /\ train_args' = Stacked
  /\ speaker_updates' = speaker_updates + 1
  /\ trained' = trained \cup RangeOf(batch_training_inputs)
  /\ train_steps' = train_steps + 1
  /\ ops' = ops \cup {"speaker.train_on_batch"}
  /\ batch_counter' = 0
  /\ batch_training_inputs' = <<>>
  /\ message_probs_storage' = <<>>
  /\ rewards_storage' = <<>>
  /\ just_trained' = TRUE
  /\ pc' = "fit"
  /\ UNCHANGED <<statsvars, total_training_reward, total_reward, listener_updates,
                 n, active, processed, examples_used, example, in_batch, cfgvars, fnvars>>

\* a failed training step whose handler clears the accumulator
IFC_train_raises_cleared ==
  /\ variant = "IFC"
  /\ pc = "fit_train"
  /\ (train_args' = train_args \/ train_args' = Stacked)
  /\ ops' = ops \cup {"speaker.train_on_batch"}
  /\ batch_counter' = 0
  /\ batch_training_inputs' = <<>>
  /\ message_probs_storage' = <<>>
  /\ rewards_storage' = <<>>
  /\ pc' = "raised_train_speaker"
  /\ UNCHANGED <<statsvars, total_training_reward, total_reward, speaker_updates,
                 listener_updates, n, active, processed, examples_used, train_steps,
                 trained, just_trained, example, in_batch, cfgvars, fnvars>>

\* line 238 raises (in the stacking, the reshape or the framework's
\* train_on_batch): the exception leaves fit, lines 239-240 do not run
IFC_train_raises ==
  /\ variant = "IFC"
  /\ pc = "fit_train"
  /\ (train_args' = train_args \/ train_args' = Stacked)
  /\ ops' = ops \cup {"speaker.train_on_batch"}
  /\ pc' = "raised_train_speaker"
  /\ UNCHANGED <<statsvars, accvars, total_training_reward, total_reward,
                 speaker_updates, listener_updates, n, active, processed,
                 examples_used, train_steps, trained, just_trained, example, in_batch,
                 cfgvars, fnvars>>

\* the iterator is exhausted: fit returns
IFC_fit_end ==
  /\ variant = "IFC"
  /\ pc = "fit"
  /\ active = "fit"
  /\ pc' = "idle"
  /\ just_trained' = FALSE
  /\ UNCHANGED <<statsvars, accvars, paramvars, total_training_reward, total_reward,
                 n, active, processed, examples_used, train_steps, trained, ops,
                 example, in_batch, cfgvars, fnvars>>

\* ---- BaseAgents.fit and VisaAgents.fit
Base_fit_start ==
  /\ variant = "Base"
  /\ StartCall("fit")
  /\ total_training_reward' = 0
  /\ batch_counter' = 0
  /\ pc' = "fit"
  /\ UNCHANGED <<statsvars, batch_training_inputs, message_probs_storage,
                 rewards_storage, total_reward, paramvars, n>>

Visa_fit_start ==
  /\ variant = "Visa"
  /\ StartCall("fit")
  /\ total_training_reward' = 0
  /\ batch_counter' = 0
  /\ n' = 0
  /\ pc' = "fit_outer"
  /\ UNCHANGED <<statsvars, batch_training_inputs, message_probs_storage,
                 rewards_storage, total_reward, paramvars>>

\* a generator call that also starts the batch counter again
Visa_next_batch_resets ==
  /\ variant = "Visa"
  /\ pc = "fit_outer"
  /\ n < n_batches
  /\ n' = n + 1
  /\ pc' = "fit"
  /\ just_trained' = FALSE
  /\ in_batch' = 0
  /\ batch_counter' = 0
  /\ UNCHANGED <<statsvars, batch_training_inputs, message_probs_storage,
                 rewards_storage, paramvars, total_training_reward, total_reward,
                 active, processed, examples_used, train_steps, trained, ops,
                 example, cfgvars, fnvars>>

\* for n in range(self.n_batches): batch = data_generator.training_batch_generator()
Visa_next_batch ==
  /\ variant = "Visa"
  /\ pc = "fit_outer"
  /\ n < n_batches
  /\ n' = n + 1
  /\ pc' = "fit"
  /\ just_trained' = FALSE
  /\ in_batch' = 0
  /\ UNCHANGED <<statsvars, accvars, paramvars, total_training_reward, total_reward,
                 active, processed, examples_used, train_steps, trained, ops,
                 example, cfgvars, fnvars>>

\* the batch the generator returned is exhausted
Visa_batch_end ==
  /\ variant = "Visa"
  /\ pc = "fit"
  /\ pc' = "fit_outer"
  /\ just_trained' = FALSE
  /\ UNCHANGED <<statsvars, accvars, paramvars, total_training_reward, total_reward,
                 n, active, processed, examples_used, train_steps, trained, ops,
                 example, in_batch, cfgvars, fnvars>>

Visa_fit_end ==
  /\ variant = "Visa"
  /\ pc = "fit_outer"
  /\ n = n_batches
  /\ pc' = "idle"
  /\ UNCHANGED <<statsvars, accvars, paramvars, total_training_reward, total_reward,
                 n, active, histvars, cfgvars, fnvars>>

Base_fit_end ==
  /\ variant = "Base"
  /\ pc = "fit"
  /\ pc' = "idle"
  /\ just_trained' = FALSE
  /\ UNCHANGED <<statsvars, accvars, paramvars, total_training_reward, total_reward,
                 n, active, processed, examples_used, train_steps, trained, ops,
                 example, in_batch, cfgvars, fnvars>>

\* sample_from_networks_on_batch, then the test of line 90 (Base) or 178 (Visa)
Base_fit_step ==
  /\ variant \in {"Base", "Visa"}
  /\ pc = "fit"
  /\ \E cands \in 1 .. MaxCand :
       \E listener_action \in 0 .. cands - 1 :
         LET t == GroundTruth(NextInput, cands)
             speaker_message == SpeakerOutput("sample", NextInput)
             reward == calculate_reward_onehot(listener_action, OneHot(t, cands))
         IN  /\ DrawExample(cands, {"speaker.sample", "listener.sample",
                                       "speaker.remember", "listener.remember"})
             /\ total_training_reward' = total_training_reward + reward
             /\ batch_counter' = batch_counter + 1
             /\ training_stats' =
                  IF save_training_stats
                  THEN Append(training_stats,
                              [reward |-> reward, input |-> NextInput,
                               message |-> speaker_message,
                               chosen_target_idx |-> listener_action])
                  ELSE training_stats
             /\ pc' = IF BatchFull(batch_counter', batch_size)
                      THEN "fit_train" ELSE "fit"
  /\ UNCHANGED <<testing_stats, batch_training_inputs,
                 message_probs_storage, rewards_storage, total_reward, paramvars, n,
                 train_steps, trained, active>>

\* train_networks_on_batch, line 78: the speaker's step returns
Base_train_speaker ==
  /\ variant \in {"Base", "Visa"}
  /\ pc = "fit_train"
  /\ speaker_updates' = speaker_updates + 1
  /\ ops' = ops \cup {"speaker.train_on_batch"}
  /\ pc' = "fit_train_listener"
  /\ UNCHANGED <<statsvars, accvars, total_training_reward, total_reward,
                 listener_updates, train_args, n, active, processed, examples_used,
                 train_steps, trained, just_trained, example, in_batch, cfgvars, fnvars>>

\* line 78 raises: the exception leaves train_networks_on_batch and fit
Base_train_speaker_raises ==
  /\ variant \in {"Base", "Visa"}
  /\ pc = "fit_train"
  /\ ops' = ops \cup {"speaker.train_on_batch"}
  /\ pc' = "raised_train_speaker"
  /\ UNCHANGED <<statsvars, accvars, total_training_reward, total_reward, paramvars,
                 n, active, processed, examples_used, train_steps, trained,
                 just_trained, example, in_batch, cfgvars, fnvars>>

\* lines 80-82: the listener's step returns, the counter is reset
Base_train_listener ==
  /\ variant \in {"Base", "Visa"}
  /\ pc = "fit_train_listener"
  /\ listener_updates' = listener_updates + 1
  /\ ops' = ops \cup {"listener.train_on_batch"}
  /\ batch_counter' = 0
  /\ train_steps' = train_steps + 1
  /\ just_trained' = TRUE
  /\ pc' = "fit"
  /\ UNCHANGED <<statsvars, batch_training_inputs, message_probs_storage,
                 rewards_storage, total_training_reward, total_reward,
                 speaker_updates, train_args, n, active, processed, examples_used,
                 trained, example, in_batch, cfgvars, fnvars>>

\* line 80 raises after the speaker was trained: line 82 does not run
Base_train_listener_raises ==
  /\ variant \in {"Base", "Visa"}
  /\ pc = "fit_train_listener"
  /\ ops' = ops \cup {"listener.train_on_batch"}
  /\ pc' = "raised_train_listener"
  /\ UNCHANGED <<statsvars, accvars, total_training_reward, total_reward, paramvars,
                 n, active, processed, examples_used, train_steps, trained,
                 just_trained, example, in_batch, cfgvars, fnvars>>

\* ---- predict
\* the flag line 255 reads
IFC_predict_flag == save_training_stats

IFC_predict_start ==
  /\ variant = "IFC"
  /\ StartCall("predict")
  /\ testing_stats' = <<>>
  /\ total_reward' = 0
  /\ pc' = "predict"
  /\ UNCHANGED <<training_stats, accvars, paramvars,
                 total_training_reward, n>>

\* one iteration of IndependentFullyConnectedAgents.predict, lines 246-261
IFC_predict_step ==
  /\ variant = "IFC"
  /\ pc = "predict"
  /\ \E cands \in 0 .. MaxCand :
       LET t == GroundTruth(NextInput, cands) IN
         IF cands = 0
         THEN /\ DrawExample(cands, {"speaker.infer", "listener_policy"})
              /\ pc' = "raised_listener_policy"
              /\ UNCHANGED <<testing_stats, total_reward>>
         ELSE \E chosen_target_idx \in 0 .. cands - 1 :
                LET message == SpeakerOutput("infer", NextInput)
                    reward == calculate_reward_index(chosen_target_idx, t)
                IN  /\ DrawExample(cands, {"speaker.infer", "listener_policy"})
                    /\ total_reward' = total_reward + reward
                    /\ testing_stats' =
                         IF IFC_predict_flag
                         THEN Append(testing_stats,
                                     [reward |-> reward, input |-> NextInput,
                                      message |-> message,
                                      chosen_target |->
                                        Candidate(NextInput, chosen_target_idx)])
                         ELSE testing_stats
                    /\ pc' = "predict"
  /\ UNCHANGED <<training_stats, accvars, paramvars,
                 total_training_reward, n, train_steps, trained, active>>

\* BaseAgents.predict, lines 95-96; VisaAgents.predict, lines 206-209
Base_predict_start ==
  /\ variant \in {"Base", "Visa"}
  /\ StartCall("predict")
  /\ testing_stats' = <<>>
  /\ total_reward' = 0
  /\ pc' = "predict"
  /\ UNCHANGED <<training_stats, accvars, paramvars,
                 total_training_reward, n>>

\* what infer_from_listener_policy returns: the (index, probabilities) pair the
\* callers of lines 192 and 215 unpack, or a bare index
ListenerInferShapes == {"pair", "index"}

\* one iteration of BaseAgents.predict, lines 97-109: line 99 binds the whole
\* return value, and a pair cannot index the one-hot vector in line 48
Base_predict_step ==
  /\ variant = "Base"
  /\ pc = "predict"
  /\ \E cands \in 1 .. MaxCand, shape \in ListenerInferShapes :
       \E chosen_target_idx \in 0 .. cands - 1 :
         LET t == GroundTruth(NextInput, cands)
             message == SpeakerOutput("infer", NextInput)
             reward == calculate_reward_onehot(chosen_target_idx, OneHot(t, cands))
         IN  /\ DrawExample(cands, {"speaker.infer", "listener.infer"})
             /\ IF shape = "pair"
                THEN /\ pc' = "raised_calculate_reward"
                     /\ UNCHANGED <<testing_stats, total_reward>>
                ELSE /\ total_reward' = total_reward + reward
                     /\ testing_stats' =
                          IF save_testing_stats
                          THEN Append(testing_stats,
                                      [reward |-> reward, input |-> NextInput,
                                       message |-> message,
                                       chosen_target_idx |-> chosen_target_idx])
                          ELSE testing_stats
                     /\ pc' = "predict"
  /\ UNCHANGED <<training_stats, accvars, paramvars,
                 total_training_reward, n, train_steps, trained, active>>

\* one iteration of VisaAgents.predict, lines 210-225
Visa_predict_step ==
  /\ variant = "Visa"
  /\ pc = "predict"
  /\ \E cands \in 1 .. MaxCand :
       \E chosen_target_idx \in 0 .. cands - 1 :
         LET t == GroundTruth(NextInput, cands)
             message == SpeakerOutput("infer", NextInput)
             reward == calculate_reward_onehot(chosen_target_idx, OneHot(t, cands))
         IN  /\ DrawExample(cands, {"speaker.infer", "listener.infer"})
             /\ total_reward' = total_reward + reward
             /\ testing_stats' =
                  IF save_testing_stats
                  THEN Append(testing_stats,
                              [reward |-> reward, input |-> NextInput,
                               message |-> message,
                               chosen_target_idx |-> chosen_target_idx])
                  ELSE testing_stats
             /\ pc' = "predict"
  /\ UNCHANGED <<training_stats, accvars, paramvars,
                 total_training_reward, n, train_steps, trained, active>>

\* the test iterator is exhausted: predict returns
predict_end ==
  /\ pc = "predict"
  /\ pc' = "idle"
  /\ UNCHANGED <<statsvars, accvars, paramvars, total_training_reward, total_reward,
                 n, active, histvars, cfgvars, fnvars>>

Next ==
  \/ IFC_fit_start
  \/ IFC_fit_step
  \/ IFC_train
  \/ IFC_train_raises
  \/ IFC_fit_end
  \/ Base_fit_start
  \/ Visa_fit_start
  \/ Visa_next_batch
  \/ Visa_batch_end
  \/ Visa_fit_end
  \/ Base_fit_end
  \/ Base_fit_step
  \/ Base_train_speaker
  \/ Base_train_speaker_raises
  \/ Base_train_listener
  \/ Base_train_listener_raises
  \/ IFC_predict_start
  \/ IFC_predict_step
  \/ Base_predict_start
  \/ Base_predict_step
  \/ Visa_predict_step
  \/ predict_end

Spec == Init /\ [][Next]_vars

\* ------------------------------------------------------------ properties
RaisedTrain == {"raised_train_speaker", "raised_train_listener"}

\* the inputs of the running call that no completed training step consumed,
\* counting batch_size inputs per step (a call's inputs are numbered in order)
TrailingInputs ==
  (examples_used - processed + train_steps * batch_size + 1) .. examples_used

InLog(log, x) == \E i \in 1 .. Len(log) : log[i].input = x

\* what C1 says of the training steps of a fit call
TrainingEveryBatchSize ==
  active = "fit" =>
    /\ pc \in {"fit_train", "fit_train_listener"} =>
         /\ batch_counter = batch_size
         /\ processed = (train_steps + 1) * batch_size
    /\ pc \in {"fit", "fit_outer", "idle"} =>
         /\ train_steps = processed \div batch_size
         /\ batch_counter = processed % batch_size
    /\ pc = "idle" =>
         /\ trained \cap TrailingInputs = {}
         /\ Cardinality(TrailingInputs) = processed % batch_size
         /\ variant = "IFC" => Cardinality(trained) = train_steps * batch_size

\* C1 as stated: a training step runs only when exactly batch_size examples
\* were sampled since the last one, so a fit over N examples makes
\* floor(N / batch_size) steps, never trains on the trailing N mod batch_size
\* examples, and those examples are in the training statistics log.
C1_TrailingAlwaysLogged ==
  /\ TrainingEveryBatchSize
  /\ (active = "fit" /\ pc = "idle") =>
       \A x \in TrailingInputs : InLog(training_stats, x)

\* C1 amended: as C1, the trailing examples being in the training statistics
\* log when save_training_stats is true.
C1_TrainingEveryBatchSize ==
  /\ TrainingEveryBatchSize
  /\ (active = "fit" /\ pc = "idle" /\ save_training_stats) =>
       \A x \in TrailingInputs : InLog(training_stats, x)

C1_Witness ==
  /\ variant = "IFC"
  /\ active = "fit"
  /\ pc = "idle"
  /\ batch_size = 2
  /\ processed = 3
  /\ train_steps = 1
  /\ trained = {1, 2}
  /\ save_training_stats
  /\ InLog(training_stats, 3)

\* C2: immediately before a training step is triggered the accumulator (the
\* counter and the three lists) holds at most batch_size entries, and
\* immediately after the step it holds none.
C2_AccumulatorBounded ==
  /\ pc \in {"fit_train", "fit_train_listener"} =>
       /\ batch_counter <= batch_size
       /\ Len(batch_training_inputs) <= batch_size
       /\ Len(message_probs_storage) <= batch_size
       /\ Len(rewards_storage) <= batch_size
  /\ just_trained =>
       /\ batch_counter = 0
       /\ batch_training_inputs = <<>>
       /\ message_probs_storage = <<>>
       /\ rewards_storage = <<>>

C2_Witness ==
  /\ just_trained
  /\ variant = "IFC"
  /\ batch_size = 2
  /\ train_args.X = <<1, 2>>
  /\ batch_counter = 0
  /\ batch_training_inputs = <<>>

\* C3: calculate_reward returns 0 or 1, and 1 exactly when the chosen index is
\* the ground-truth index, under the bare-index and the one-hot encoding.
C3_RewardIsIndicator ==
  call.op \in {"reward_index", "reward_onehot"} =>
    /\ call.reward \in {0, 1}
    /\ call.reward = 1 <=> call.chosen = call.target
    /\ call.op = "reward_index" => (call.reward = 1 <=> call.chosen = call.truth)
    /\ call.op = "reward_onehot" =>
         (call.reward = 1 <=> call.truth[call.chosen + 1] = 1)

C3_Witness ==
  /\ call.op = "reward_onehot"
  /\ call.truth = <<0, 1, 0>>
  /\ call.chosen = 1
  /\ call.reward = 1

\* C4: after a fit or predict call over N examples, a later call on the same
\* object included, the call's statistics log holds N records (stated for
\* both save flags true).
C4_LogLengthIsProcessed ==
  (save_training_stats /\ save_testing_stats /\ pc = "idle") =>
    /\ active = "fit" => Len(training_stats) = processed
    /\ active = "predict" => Len(testing_stats) = processed

\* C5: a predict call invokes only the deterministic infer path of the two
\* policies, never a sample or a training operation, and leaves the model
\* parameters, the training log and the batch accumulator unchanged.
C5_PredictInfersOnly ==
  [][(active' = "predict" /\ pc' \notin Raised) =>
       /\ ops' \subseteq {"speaker.infer", "listener.infer"}
       /\ UNCHANGED <<paramvars, training_stats, accvars>>]_vars

\* C6: the message of the sample path and of the infer path holds exactly
\* max_message_length symbols, each in [0, alphabet_size), with as many
\* probabilities, for every alphabet_size >= 1 and max_message_length >= 1.
C6_MessageShape ==
  call.op \in {"sample", "infer"} =>
    /\ Len(MessageSymbols(call.message)) = max_message_length
    /\ Len(call.message_probs) = max_message_length
    /\ \A i \in 1 .. Len(MessageSymbols(call.message)) :
         MessageSymbols(call.message)[i] \in 0 .. alphabet_size - 1

C8_FailedTrainingAborts ==
  [][/\ pc \notin RaisedTrain
     /\ pc' \in RaisedTrain =>
          /\ pc \in {"fit_train", "fit_train_listener"}
          /\ batch_counter' = batch_size
          /\ UNCHANGED <<accvars, statsvars, processed, train_steps, trained,
                         speaker_updates, listener_updates, just_trained>>
          /\ ~just_trained'
          /\ variant = "IFC" =>
               /\ Len(batch_training_inputs') = batch_size
               /\ Len(message_probs_storage') = batch_size
               /\ Len(rewards_storage') = batch_size
          /\ pc' = "raised_train_speaker" => pc = "fit_train"
          /\ pc' = "raised_train_listener" =>
               /\ pc = "fit_train_listener"
               /\ speaker_updates' = listener_updates' + 1]_vars

C8_Witness ==
  /\ pc = "raised_train_listener"
  /\ variant = "Base"
  /\ batch_size = 2
  /\ batch_counter = 2
  /\ speaker_updates = 1
  /\ listener_updates = 0

\* C9: in IndependentFullyConnectedAgents an example with no candidates ends
\* fit or predict in listener_policy: no record is appended for it, neither
\* reward total, the counter nor the accumulator change, no training step
\* runs, the records of earlier examples stay, and no further step is taken.
C9_EmptyCandidatesFatal ==
  [][/\ pc # "raised_listener_policy"
     /\ (variant = "IFC" /\ processed' = processed + 1 /\ example'.cands = 0) =>
          /\ pc' = "raised_listener_policy"
          /\ UNCHANGED <<statsvars, accvars, paramvars, total_training_reward,
                         total_reward, train_steps, trained>>
     /\ pc' = "raised_listener_policy" =>
          /\ variant = "IFC"
          /\ example'.cands = 0]_vars

C9_Witness ==
  /\ pc = "raised_listener_policy"
  /\ active = "fit"
  /\ processed = 2
  /\ Len(training_stats) = 1
  /\ batch_counter = 1

\* C10: every example predict completes appends one record to testing_stats
\* exactly when save_testing_stats is true, and every example fit completes
\* appends one record to training_stats exactly when save_training_stats is
\* true, whatever the other flag.
C10_OwnFlagOnly ==
  [][(processed' = processed + 1 /\ pc' \notin Raised) =>
       /\ active = "predict" =>
            Len(testing_stats') =
              Len(testing_stats) + (IF save_testing_stats THEN 1 ELSE 0)
       /\ active = "fit" =>
            Len(training_stats') =
              Len(training_stats) + (IF save_training_stats THEN 1 ELSE 0)]_vars

\* C11: in VisaAgents.fit the batch counter is set to 0 only when fit starts
\* and when a training step completes, and is left alone between two generator
\* calls; so it counts the examples of all generator calls together, a training
\* step completes exactly after the examples numbered batch_size,
\* 2 * batch_size, ..., and the examples one generator call returned trigger a
\* step only when they bring that count to batch_size.
C11_CounterSpansGeneratorCalls ==
  [][(variant = "Visa" /\ active' = "fit") =>
       /\ (batch_counter' = 0 /\ batch_counter # 0) =>
            (pc = "idle" \/ pc = "fit_train_listener")
       /\ (pc \in {"fit", "fit_outer"} /\ pc' \in {"fit", "fit_outer"}
           /\ processed' = processed /\ train_steps' = train_steps) =>
            UNCHANGED accvars
       /\ pc' \in {"fit", "fit_outer", "idle"} =>
            /\ batch_counter' = processed' % batch_size
            /\ train_steps' = processed' \div batch_size
       /\ train_steps' = train_steps + 1 =>
            /\ processed > 0
            /\ processed = (train_steps + 1) * batch_size
       /\ pc' = "fit_train" => batch_counter' = batch_size]_vars

\* a step trained on one example of the second generator call and one of the
\* first, whose result was shorter than batch_size
C11_Witness ==
  /\ variant = "Visa"
  /\ active = "fit"
  /\ just_trained
  /\ batch_size = 2
  /\ n = 2
  /\ in_batch = 1
  /\ processed = 2
  /\ train_steps = 1
  /\ batch_counter = 0

====
